---- MODULE Spec2Model ----
(***************************************************************************)
(* A model of card-oci: the card catalog (cards.go), the artifact builder  *)
(* and the copy to a destination store (oci.go), and the reader            *)
(* (serve.go).                                                             *)
(*                                                                         *)
(* Strings that the code indexes (card codes) are sequences of             *)
(* one-character strings; strings that the code only builds or compares    *)
(* (filenames, digests, tags) are TLA+ strings.                            *)
(***************************************************************************)
EXTENDS Integers, Sequences, FiniteSets, TLC

(* ------------------------------ bounds --------------------------------- *)

\* longest arbitrary string handed to shorthandToFilename
MaxCodeLen == 3
\* runs of pushDeck or saveDeckLocal against the one destination
MaxOps == 1
\* calls of buildDeck on its own
MaxBuilds == 2
\* blobs of the destination overwritten behind the program's back
MaxTamper == 1

(* ------------------------------ cards.go ------------------------------- *)

suits == ("c" :> "clubs") @@ ("d" :> "diamonds") @@ ("s" :> "spades") @@ ("h" :> "hearts")

\* a plausible slip: two rank names exchanged
ranks_swapped ==
    ("2" :> "2") @@ ("3" :> "3") @@ ("4" :> "4") @@ ("5" :> "5") @@
    ("6" :> "6") @@ ("7" :> "7") @@ ("8" :> "8") @@ ("9" :> "9") @@ ("10" :> "10") @@
    ("j" :> "jack") @@ ("q" :> "king") @@ ("k" :> "queen") @@ ("a" :> "ace")

\* a plausible slip: two rank keys with one name
ranks_collide ==
    ("2" :> "2") @@ ("3" :> "3") @@ ("4" :> "4") @@ ("5" :> "5") @@
    ("6" :> "6") @@ ("7" :> "7") @@ ("8" :> "8") @@ ("9" :> "9") @@ ("10" :> "10") @@
    ("j" :> "jack") @@ ("q" :> "king") @@ ("k" :> "king") @@ ("a" :> "ace")

ranks ==
    ("2" :> "2") @@ ("3" :> "3") @@ ("4" :> "4") @@ ("5" :> "5") @@
    ("6" :> "6") @@ ("7" :> "7") @@ ("8" :> "8") @@ ("9" :> "9") @@ ("10" :> "10") @@
    ("j" :> "jack") @@ ("q" :> "queen") @@ ("k" :> "king") @@ ("a" :> "ace")

\* the string a sequence of characters spells
RECURSIVE Str(_)
Str(s) == IF s = <<>> THEN "" ELSE Head(s) \o Str(Tail(s))

\* strings.ToLower, on the ASCII letters
UpperToLower ==
    ("A" :> "a") @@ ("B" :> "b") @@ ("C" :> "c") @@ ("D" :> "d") @@ ("E" :> "e") @@
    ("F" :> "f") @@ ("G" :> "g") @@ ("H" :> "h") @@ ("I" :> "i") @@ ("J" :> "j") @@
    ("K" :> "k") @@ ("L" :> "l") @@ ("M" :> "m") @@ ("N" :> "n") @@ ("O" :> "o") @@
    ("P" :> "p") @@ ("Q" :> "q") @@ ("R" :> "r") @@ ("S" :> "s") @@ ("T" :> "t") @@
    ("U" :> "u") @@ ("V" :> "v") @@ ("W" :> "w") @@ ("X" :> "x") @@ ("Y" :> "y") @@
    ("Z" :> "z")

\* a plausible slip: the string is taken as written
ToLower_asis(s) == s

ToLower(s) ==
    [i \in 1..Len(s) |-> IF s[i] \in DOMAIN UpperToLower THEN UpperToLower[s[i]] ELSE s[i]]

\* strings.TrimSpace: leading and trailing white space removed
IsSpace(ch) == ch \in {" ", "\t", "\n", "\r", "\f"}

RECURSIVE TrimLeft(_)
TrimLeft(s) == IF s # <<>> /\ IsSpace(Head(s)) THEN TrimLeft(Tail(s)) ELSE s

RECURSIVE TrimRight(_)
TrimRight(s) ==
    IF s # <<>> /\ IsSpace(s[Len(s)]) THEN TrimRight(SubSeq(s, 1, Len(s) - 1)) ELSE s

TrimSpace(s) == TrimRight(TrimLeft(s))

\* The element of a one-element set. The({e : x \in {v}}) is e with x naming
\* the value of v, computed once however often e reads x.
The(S) == CHOOSE r \in S : TRUE

\* a plausible slip: the rank is looked up but a miss is not an error
shorthandToFilename_norankcheck(s0) ==
    The({
        IF Len(s) < 2
        THEN [name |-> "", err |-> "invalid card shorthand"]
        ELSE LET suitChar == s[Len(s)]
                 rankStr  == Str(SubSeq(s, 1, Len(s) - 1))
             IN  IF suitChar \notin DOMAIN suits
                 THEN [name |-> "", err |-> "unknown suit"]
                 ELSE [name |-> (IF rankStr \in DOMAIN ranks THEN ranks[rankStr] ELSE "")
                                \o "_of_" \o suits[suitChar] \o ".png",
                       err  |-> ""]
      : s \in {TrimSpace(ToLower(s0))}})

\* shorthandToFilename: "2c" -> "2_of_clubs.png"; err is "" on success
shorthandToFilename(s0) ==
    The({
        IF Len(s) < 2
        THEN [name |-> "", err |-> "invalid card shorthand"]
        ELSE LET suitChar == s[Len(s)]
                 rankStr  == Str(SubSeq(s, 1, Len(s) - 1))
             IN  IF suitChar \notin DOMAIN suits
                 THEN [name |-> "", err |-> "unknown suit"]
                 ELSE IF rankStr \notin DOMAIN ranks
                 THEN [name |-> "", err |-> "unknown rank"]
                 ELSE [name |-> ranks[rankStr] \o "_of_" \o suits[suitChar] \o ".png",
                       err  |-> ""]
      : s \in {TrimSpace(ToLower(s0))}})

(* ------------------------- content and digests ------------------------- *)

artifactType == "application/vnd.card-deck"
configMediaType == "application/vnd.card-deck.config+json"
imageMediaType == "image/png"
manifestMediaType == "application/vnd.oci.image.manifest.v1+json"
AnnotationTitle == "org.opencontainers.image.title"
AnnotationCard == "io.github.card-deck.card"
AnnotationCreated == "org.opencontainers.image.created"

\* A descriptor: media type, digest, size, and the annotations as the
\* key-sorted list of <<key, value>> that the JSON encoding of the map is.
NoDesc == [mediaType |-> "", digest |-> "", size |-> 0, annotations |-> <<>>]

\* Go's map lookup: "" for a key that is not there
RECURSIVE Annotation(_, _)
Annotation(anns, key) ==
    IF anns = <<>> THEN ""
    ELSE IF Head(anns)[1] = key THEN Head(anns)[2]
    ELSE Annotation(Tail(anns), key)

NoManifest == [artifactType |-> "", config |-> NoDesc, layers |-> <<>>, annotations |-> <<>>]

\* The bytes of a file or blob, by what they hold: a PNG image (text names
\* the picture), a JSON array of strings (cards), a JSON manifest, or
\* anything else (text).
PngBytes(filename) ==
    [kind |-> "png", text |-> filename, cards |-> <<>>, manifest |-> NoManifest]
DeckBytes(cards) ==
    [kind |-> "json-strings", text |-> "", cards |-> cards, manifest |-> NoManifest]
ManifestBytes(m) ==
    [kind |-> "json-manifest", text |-> "", cards |-> <<>>, manifest |-> m]
TextBytes(text) ==
    [kind |-> "text", text |-> text, cards |-> <<>>, manifest |-> NoManifest]

RECURSIVE AnnotationsText(_)
AnnotationsText(anns) ==
    IF anns = <<>> THEN ""
    ELSE "\"" \o Head(anns)[1] \o "\":\"" \o Head(anns)[2] \o "\"," \o AnnotationsText(Tail(anns))

DescText(d) ==
    "{" \o d.mediaType \o "," \o d.digest \o "," \o ToString(d.size) \o ",{"
        \o AnnotationsText(d.annotations) \o "}}"

RECURSIVE LayersText(_)
LayersText(ls) == IF ls = <<>> THEN "" ELSE DescText(Head(ls)) \o LayersText(Tail(ls))

RECURSIVE CardsText(_)
CardsText(cs) == IF cs = <<>> THEN "" ELSE "\"" \o Str(Head(cs)) \o "\"," \o CardsText(Tail(cs))

\* the content of the bytes, written out: equal exactly for equal bytes
BytesText(b) ==
    IF b.kind = "json-manifest"
    THEN b.kind \o ":" \o b.manifest.artifactType \o DescText(b.manifest.config)
            \o "[" \o LayersText(b.manifest.layers) \o "]{"
            \o AnnotationsText(b.manifest.annotations) \o "}"
    ELSE IF b.kind = "json-strings"
    THEN b.kind \o ":[" \o CardsText(b.cards) \o "]"
    ELSE b.kind \o ":" \o b.text

\* digest.FromBytes: SHA-256 taken as collision free
Digest(b) == "sha256:" \o BytesText(b)

Size(b) == Len(BytesText(b))

\* content.NewDescriptorFromBytes
NewDescriptorFromBytes(mediaType, b) ==
    The({[mediaType |-> mediaType, digest |-> "sha256:" \o t, size |-> Len(t),
          annotations |-> <<>>] : t \in {BytesText(b)}})

(* --------------------------- the file system --------------------------- *)

c2c == <<"2", "c">>
cad == <<"a", "d">>
ckh == <<"k", "h">>
cAD == <<"A", "D">>
czz == <<"z", "z">>

\* the deck files of the runs: path -> bytes
Files ==
    ("a.json" :> DeckBytes(<<c2c, cad>>)) @@
    ("b.json" :> DeckBytes(<<c2c, ckh>>)) @@
    ("dup.json" :> DeckBytes(<<c2c, c2c>>)) @@
    ("case.json" :> DeckBytes(<<cad, cAD>>)) @@
    ("bad.json" :> DeckBytes(<<c2c, czz>>)) @@
    ("cards.txt" :> TextBytes("# comment\n2c\n\nad\n# another comment\nkh\n"))

DeckPaths == DOMAIN Files \cup {"/nonexistent/deck.txt"}

\* the directory of the 52 card pictures, and one that does not exist
ImagesDirs == {"PNG-cards-1.3", "/nonexistent/images"}

CardPictures ==
    {ranks[r] \o "_of_" \o suits[s] \o ".png" : r \in DOMAIN ranks, s \in DOMAIN suits}

\* os.ReadFile
ReadFile(path) ==
    IF path \in DOMAIN Files THEN [data |-> Files[path], err |-> ""]
    ELSE [data |-> TextBytes(""), err |-> "no such file"]

ReadImage(imagesDir, filename) ==
    IF imagesDir = "PNG-cards-1.3" /\ filename \in CardPictures
    THEN [data |-> PngBytes(filename), err |-> ""]
    ELSE [data |-> TextBytes(""), err |-> "no such file"]

\* readDeck: the deck file is a JSON array of strings
readDeck(path) ==
    The({
        IF f.err # "" THEN [cards |-> <<>>, err |-> f.err]
        ELSE IF f.data.kind # "json-strings" THEN [cards |-> <<>>, err |-> "parsing deck"]
        ELSE [cards |-> f.data.cards, err |-> ""]
      : f \in {ReadFile(path)}})

\* filepath.Base of the deck paths of the runs
Base(path) == IF path = "/nonexistent/deck.txt" THEN "deck.txt" ELSE path

(* ------------------------------- oci.go -------------------------------- *)

\* strings.Index for a one-character separator: 0 when it does not occur
Index(s, ch) ==
    IF \E i \in 1..Len(s) : s[i] = ch
    THEN CHOOSE i \in 1..Len(s) : s[i] = ch /\ \A j \in 1..(i - 1) : s[j] # ch
    ELSE 0

\* strings.SplitN(s, sep, 3): cut at the first two separators
SplitN3(s, sep) ==
    The({
        IF i = 0 THEN <<s>>
        ELSE The({
            IF j = 0 THEN <<SubSeq(s, 1, i - 1), SubSeq(s, i + 1, Len(s))>>
            ELSE <<SubSeq(s, 1, i - 1), SubSeq(s, i + 1, i + j - 1),
                   SubSeq(s, i + j + 1, Len(s))>>
          : j \in {Index(SubSeq(s, i + 1, Len(s)), sep)}})
      : i \in {Index(s, sep)}})

latest == <<"l", "a", "t", "e", "s", "t">>

\* a plausible slip: what follows a single colon is the tag
parseTag_nocheck(ref) ==
    The({
        IF Len(parts) = 3 THEN parts[3]
        ELSE IF Len(parts) = 2 THEN parts[2]
        ELSE latest
      : parts \in {SplitN3(ref, ":")}})

\* parseTag: the tag of a reference like localhost:5000/repo:tag
parseTag(ref) ==
    The({
        IF Len(parts) = 3 THEN parts[3]
        ELSE IF Len(parts) = 2 /\ Index(parts[2], "/") = 0 THEN parts[2]
        ELSE latest
      : parts \in {SplitN3(ref, ":")}})

\* memory.Store: content keyed by (media type, digest, size), and tags
NewMemory == [content |-> <<>>, tags |-> <<>>]

MemKey(desc) == <<desc.mediaType, desc.digest, desc.size>>

\* oras.PushBytes into a memory.Store: the store refuses content it holds
PushBytes(store, mediaType, data) ==
    The({
        IF MemKey(desc) \in DOMAIN store.content
        THEN [store |-> store, desc |-> NoDesc, err |-> "already exists"]
        ELSE [store |-> [store EXCEPT !.content = @ @@ (MemKey(desc) :> data)],
              desc |-> desc, err |-> ""]
      : desc \in {NewDescriptorFromBytes(mediaType, data)}})

\* the orders in which a range over a Go map may visit the keys
Orders(S) ==
    {p \in [1..Cardinality(S) -> S] : \A i, j \in 1..Cardinality(S) : i # j => p[i] # p[j]}

Range(s) == {s[i] : i \in 1..Len(s)}

\* one entry of the record of the pushes of a build
PushEntry(store, mediaType, data, r) ==
    [digest |-> Digest(data),
     held |-> MemKey(NewDescriptorFromBytes(mediaType, data)) \in DOMAIN store.content,
     err |-> r.err,
     desc |-> r.desc,
     wrote |-> r.store # store]

\* buildDeck, lines 64-76, for the card `shorthand` with picture `f.name`
\* and picture bytes `data`: the push, the annotations, the append
pushLayer(shorthand, f, data, store, layers, pushes) ==
    The({
        IF p.err # ""
        THEN [store |-> store, layers |-> layers,
              pushes |-> Append(pushes, PushEntry(store, imageMediaType, data, p)),
              err |-> "pushing layer"]
        ELSE [store |-> p.store,
              layers |-> Append(layers, [p.desc EXCEPT !.annotations =
                          <<<<AnnotationCard, Str(shorthand)>>, <<AnnotationTitle, f.name>>>>]),
              pushes |-> Append(pushes, PushEntry(store, imageMediaType, data, p)),
              err |-> ""]
      : p \in {PushBytes(store, imageMediaType, data)}})

\* a plausible slip: a card code that does not resolve is passed over
buildLayer_skip(shorthand, imagesDir, acc) ==
    The({
        IF f.err # "" THEN acc
        ELSE The({
            IF img.err # "" THEN [acc EXCEPT !.err = "reading card image"]
            ELSE pushLayer(shorthand, f, img.data, acc.store, acc.layers, acc.pushes)
          : img \in {ReadImage(imagesDir, f.name)}})
      : f \in {shorthandToFilename(shorthand)}})

\* buildDeck, lines 54-76: the body of the loop, for one card; acc is the
\* store, the layers and the record of the pushes so far
buildLayer(shorthand, imagesDir, acc) ==
    The({
        IF f.err # "" THEN [acc EXCEPT !.err = f.err]
        ELSE The({
            IF img.err # "" THEN [acc EXCEPT !.err = "reading card image"]
            ELSE pushLayer(shorthand, f, img.data, acc.store, acc.layers, acc.pushes)
          : img \in {ReadImage(imagesDir, f.name)}})
      : f \in {shorthandToFilename(shorthand)}})

\* buildDeck, lines 53-76: the loop over uniqueCards, visited in `order`;
\* an error ends it
RECURSIVE buildLayers(_, _, _)
buildLayers(order, imagesDir, acc) ==
    IF order = <<>> \/ acc.err # "" THEN acc
    ELSE The({buildLayers(Tail(order), imagesDir, next)
                : next \in {buildLayer(Head(order), imagesDir, acc)}})

\* oras.PackManifest (version 1.1): the manifest, with the time of packing
\* as its created annotation, pushed as a blob; a manifest the store holds
\* already is no error here
PackManifest(store, layers, configDesc, now) ==
    The({[store |-> PushBytes(store, manifestMediaType, ManifestBytes(m)).store,
          desc |-> NewDescriptorFromBytes(manifestMediaType, ManifestBytes(m)),
          manifest |-> m, err |-> ""]
      : m \in {[artifactType |-> artifactType, config |-> configDesc, layers |-> layers,
                annotations |-> <<<<AnnotationCreated, "T" \o ToString(now)>>>>]}})

NoBuild ==
    [err |-> "(none)", store |-> NewMemory, root |-> NoDesc, manifest |-> NoManifest,
     cards |-> <<>>, pushes |-> <<>>]

Failed(err, pushes) == [NoBuild EXCEPT !.err = err, !.pushes = pushes]

\* buildDeck, lines 78-104: the deck file pushed as the config, the manifest
\* packed and tagged; d is what readDeck returned, ls what the loop left
packDeck(deckPath, tag, now, d, ls, deckData) ==
    IF deckData.err # "" THEN Failed("reading deck file for config", ls.pushes)
    ELSE The({
        IF c.err # ""
        THEN Failed("pushing config",
                    Append(ls.pushes, PushEntry(ls.store, configMediaType, deckData.data, c)))
        ELSE The({
            [err |-> "",
             store |-> [m.store EXCEPT !.tags = @ @@ (tag :> m.desc)],
             root |-> m.desc, manifest |-> m.manifest, cards |-> d.cards,
             pushes |-> Append(ls.pushes,
                               PushEntry(ls.store, configMediaType, deckData.data, c))]
          : m \in {PackManifest(c.store, ls.layers,
                       [c.desc EXCEPT !.annotations = <<<<AnnotationTitle, Base(deckPath)>>>>],
                       now)}})
      : c \in {PushBytes(ls.store, configMediaType, deckData.data)}})

\* buildDeck; `order` is the order the range over uniqueCards takes and
\* `now` the time PackManifest reads
buildDeck(deckPath, imagesDir, tag, order, now) ==
    The({
        IF d.err # "" THEN Failed("reading deck", <<>>)
        ELSE The({
            IF ls.err # "" THEN Failed(ls.err, ls.pushes)
            ELSE The({packDeck(deckPath, tag, now, d, ls, deckData)
                        : deckData \in {ReadFile(deckPath)}})
          : ls \in {buildLayers(order, imagesDir,
                        [store |-> NewMemory, layers |-> <<>>, pushes |-> <<>>, err |-> ""])}})
      : d \in {readDeck(deckPath)}})

\* the set uniqueCards of buildDeck, lines 47-50
uniqueCards(deckPath) == Range(readDeck(deckPath).cards)

(* ------------------------------ serve.go ------------------------------- *)

\* a plausible slip: the bytes are handed on as read
FetchAll_unverified(bl, desc) ==
    IF desc.digest \notin DOMAIN bl
    THEN [data |-> TextBytes(""), err |-> "not found"]
    ELSE [data |-> bl[desc.digest], err |-> ""]

\* content.FetchAll from a store holding the blobs bl: the bytes stored
\* under the descriptor's digest, checked against its size and digest
FetchAll(bl, desc) ==
    IF desc.digest \notin DOMAIN bl
    THEN [data |-> TextBytes(""), err |-> "not found"]
    ELSE LET data == bl[desc.digest] IN
         IF Size(data) # desc.size
         THEN [data |-> TextBytes(""), err |-> "size mismatch"]
         ELSE IF Digest(data) # desc.digest
         THEN [data |-> TextBytes(""), err |-> "digest mismatch"]
         ELSE [data |-> data, err |-> ""]

\* a plausible slip: the images are keyed by the card annotation
RECURSIVE loadLayers_bycard(_, _, _)
loadLayers_bycard(bl, layers, images) ==
    IF layers = <<>> THEN [images |-> images, err |-> ""]
    ELSE The({
        IF layer.mediaType # imageMediaType \/ filename = ""
        THEN loadLayers_bycard(bl, Tail(layers), images)
        ELSE The({
            IF f.err # "" THEN [images |-> <<>>, err |-> "fetching layer"]
            ELSE The({loadLayers_bycard(bl, Tail(layers), imgs)
                        : imgs \in {[k \in DOMAIN images \cup {filename} |->
                                        IF k = filename THEN f.data ELSE images[k]]}})
          : f \in {FetchAll(bl, layer)}})
      : layer \in {Head(layers)}, filename \in {Annotation(Head(layers).annotations, AnnotationCard)}})

\* loadDeck, lines 271-285: the loop over manifest.Layers
RECURSIVE loadLayers(_, _, _)
loadLayers(bl, layers, images) ==
    IF layers = <<>> THEN [images |-> images, err |-> ""]
    ELSE The({
        IF layer.mediaType # imageMediaType \/ filename = ""
        THEN loadLayers(bl, Tail(layers), images)
        ELSE The({
            IF f.err # "" THEN [images |-> <<>>, err |-> "fetching layer"]
            ELSE The({loadLayers(bl, Tail(layers), imgs)
                        : imgs \in {[k \in DOMAIN images \cup {filename} |->
                                        IF k = filename THEN f.data ELSE images[k]]}})
          : f \in {FetchAll(bl, layer)}})
      : layer \in {Head(layers)}, filename \in {Annotation(Head(layers).annotations, AnnotationTitle)}})

NoDeck == [err |-> "(none)", cards |-> <<>>, images |-> <<>>]

\* loadDeck, lines 261-287: the config and the layers of the manifest
loadConfig(bl, manifest) ==
    The({
        IF c.err # "" THEN [NoDeck EXCEPT !.err = "fetching config"]
        ELSE IF c.data.kind # "json-strings"
        THEN [NoDeck EXCEPT !.err = "unmarshaling config"]
        ELSE The({
            IF ls.err # "" THEN [NoDeck EXCEPT !.err = ls.err]
            ELSE [err |-> "", cards |-> c.data.cards, images |-> ls.images]
          : ls \in {loadLayers(bl, manifest.layers, <<>>)}})
      : c \in {FetchAll(bl, manifest.config)}})

\* loadDeck from a store holding the blobs bl and the tag table tg
loadDeck(bl, tg, tag) ==
    IF tag \notin DOMAIN tg THEN [NoDeck EXCEPT !.err = "resolving tag"]
    ELSE The({
        IF m.err # "" THEN [NoDeck EXCEPT !.err = "fetching manifest"]
        ELSE IF m.data.kind # "json-manifest"
        THEN [NoDeck EXCEPT !.err = "unmarshaling manifest"]
        ELSE loadConfig(bl, m.data.manifest)
      : m \in {FetchAll(bl, tg[tag])}})

\* a plausible slip: a layout is opened with the tag the caller names
openDeck_astagged(kind, refTag) == refTag

\* openDeck, the tag it returns: "latest" for a source that is a directory,
\* else the tag of the registry reference (refTag, what parseRef returns)
openDeck(kind, refTag) == IF kind = "oci" THEN "latest" ELSE refTag

(* ------------------------------ state ---------------------------------- *)
VARIABLES
    arg,      \* the string of the current call of shorthandToFilename
    ret,      \* what the call returned, NoRet while it has not returned
    dstKind,  \* the destination: "remote" (a registry) or "oci" (a layout directory)
    blobs,    \* the destination's blobs: digest -> bytes
    tags,     \* the destination's tag table: tag -> manifest descriptor
    pc,       \* the run of pushDeck/saveDeckLocal: "idle", "copying", "tagging"
    build,    \* what buildDeck returned in the current or last run
    input,    \* the arguments of the current or last run
    pending,  \* oras.Copy: the successors of the root not yet copied or skipped
    events,   \* what PreCopy and OnCopySkipped printed in this run, in order
    before,   \* the destination's blobs and tags when the run began
    result,   \* how the last run ended: "ok", "build failed", "copy failed"
    nOps,     \* runs begun
    now,      \* the time the last buildDeck read
    prev,     \* buildDeck called on its own: the call before, result and arguments
    pushed,   \* tag -> the cards of the deck whose copy last bound the tag
    loaded,   \* what loadDeck returned, called on the destination as it is now
    nTamper,  \* blobs overwritten so far
    target,   \* the reference of the current call of parseTag
    parsed,   \* what the call returned, NoParsed while it has not returned
    procs     \* runs going on at one time: process -> its state

vars == <<arg, ret, dstKind, blobs, tags, pc, build, input, pending, events, before,
          result, nOps, now, prev, pushed, loaded, nTamper, target, parsed, procs>>

catalogVars == <<arg, ret>>
parseVars == <<target, parsed>>
storeVars == <<dstKind, blobs, tags, pc, build, input, pending, events, before,
               result, nOps, now, prev, pushed, loaded, nTamper>>

NoRet == [name |-> "", err |-> "(pending)"]

NoParsed == <<"?">>

\* no call of parseTag and no runs at one time
InitRest ==
    /\ target = <<>>
    /\ parsed = NoParsed
    /\ procs = <<>>

Tags == {"latest", "v1"}

NoInput == [deckPath |-> "", imagesDir |-> "", tag |-> ""]

NoLoad == [tag |-> "", deck |-> NoDeck]

\* the artifact an earlier run stored for a.json under the tag v1
Earlier == buildDeck("a.json", "PNG-cards-1.3", "v1", <<c2c, cad>>, 0)

\* the blobs of a memory store, by digest
ByDigest(content) ==
    [d \in {k[2] : k \in DOMAIN content} |->
        content[CHOOSE k \in DOMAIN content : k[2] = d]]

\* a plausible slip: a bound tag keeps its binding
Bind_keep(tg, tag, desc) == [t \in DOMAIN tg \cup {tag} |-> IF t \in DOMAIN tg THEN tg[t] ELSE desc]

\* the tag table with tag bound to desc (a bound tag is rebound)
Bind(tg, tag, desc) == [t \in DOMAIN tg \cup {tag} |-> IF t = tag THEN desc ELSE tg[t]]

\* oci.Store.Push of a manifest enters it in index.json under its digest
ByDigestRef(tg, desc) == Bind(tg, desc.digest, desc)

\* the manifests index.json of a layout lists: one entry for every tag, with
\* the tag as its reference name, and one entry without a name for every
\* manifest that is entered under its digest only
IndexManifests(tg) ==
    {[ref |-> t, desc |-> tg[t]] : t \in {r \in DOMAIN tg : r # tg[r].digest}}
    \cup {[ref |-> "", desc |-> tg[d]] :
            d \in {r \in DOMAIN tg : r = tg[r].digest
                       /\ \A t \in DOMAIN tg : tg[t].digest = r => t = r}}

\* the program starts with its variables unset; the destination is new and
\* empty, or it is what an earlier run that stored a.json as v1 left
InitStore ==
    /\ dstKind \in {"remote", "oci"}
    /\ \/ /\ blobs = <<>>
          /\ tags = <<>>
          /\ pushed = <<>>
       \/ \E e \in {Earlier} :
          /\ blobs = ByDigest(e.store.content)
          /\ tags = IF dstKind = "oci" THEN ByDigestRef(e.store.tags, e.root)
                    ELSE e.store.tags
          /\ pushed = ("v1" :> e.cards)
    /\ pc = "idle"
    /\ build = NoBuild
    /\ input = NoInput
    /\ pending = {}
    /\ events = <<>>
    /\ before = [blobs |-> <<>>, tags |-> <<>>]
    /\ result = "(none)"
    /\ nOps = 0
    /\ now = 0
    /\ prev = [build |-> NoBuild, input |-> NoInput]
    /\ loaded = NoLoad
    /\ nTamper = 0

(* ------------------ oras.Copy, as pushDeck and saveDeckLocal run it ---- *)

\* a plausible slip: the destination is never asked, everything is sent
Exists_never(bl, desc) == FALSE

\* Exists of the destination: by digest
Exists(bl, desc) == desc.digest \in DOMAIN bl

\* the successors of a manifest: its config and its layers
Successors(m) == {m.config} \cup Range(m.layers)

Event(type, desc) == [type |-> type, desc |-> desc]

\* the callbacks PreCopy and OnCopySkipped of pushDeck and saveDeckLocal
\* print for image/png descriptors only; OnCopySkipped is set by pushDeck only
Report(evs, type, desc) ==
    IF desc.mediaType # imageMediaType THEN evs
    ELSE IF type = "skip" /\ dstKind # "remote" THEN evs
    ELSE Append(evs, Event(type, desc))

\* the times a call may read, given the time the call before read: only
\* whether two calls read the same time shows
Times == {now, now + 1}

\* buildDeck, then the start of oras.Copy: the root is resolved in the
\* memory store and looked up in the destination; a root the destination
\* holds is skipped with all below it, and only tagged (which may fail).
StartRun(deckPath, imagesDir, tag, order) ==
    /\ pc = "idle"
    /\ nOps < MaxOps
    /\ \E t \in Times : \E b \in {buildDeck(deckPath, imagesDir, tag, order, t)} :
        /\ now' = t
        /\ nOps' = nOps + 1
        /\ input' = [deckPath |-> deckPath, imagesDir |-> imagesDir, tag |-> tag]
        /\ build' = b
        /\ before' = [blobs |-> blobs, tags |-> tags]
        /\ loaded' = NoLoad
        /\ UNCHANGED <<catalogVars, parseVars, procs, dstKind, blobs, prev, nTamper>>
        /\ IF b.err # ""
           THEN /\ result' = "build failed"
                /\ events' = <<>>
                /\ UNCHANGED <<pc, pending, tags, pushed>>
           ELSE /\ IF Exists(blobs, b.root)
                   THEN /\ events' = <<>>
                        /\ UNCHANGED <<pc, pending>>
                        /\ \/ /\ tags' = Bind(tags, tag, b.root)
                              /\ pushed' = Bind(pushed, tag, b.cards)
                              /\ result' = "ok"
                           \/ /\ result' = "copy failed"
                              /\ UNCHANGED <<tags, pushed>>
                   ELSE /\ pc' = "copying"
                        /\ pending' = Successors(b.manifest)
                        /\ events' = <<>>
                        /\ result' = "(running)"
                        /\ UNCHANGED <<tags, pushed>>

\* pushDeck: the destination is a registry
pushDeck ==
    /\ dstKind = "remote"
    /\ \E deckPath \in DeckPaths, imagesDir \in ImagesDirs, tag \in Tags :
         \E order \in Orders(uniqueCards(deckPath)) :
            StartRun(deckPath, imagesDir, tag, order)

\* saveDeckLocal: the destination is an OCI layout directory
saveDeckLocal ==
    /\ dstKind = "oci"
    /\ \E deckPath \in DeckPaths, imagesDir \in ImagesDirs, tag \in Tags :
         \E order \in Orders(uniqueCards(deckPath)) :
            StartRun(deckPath, imagesDir, tag, order)

\* a plausible slip: the blob is created but its bytes are not written
CopyNode_empty ==
    /\ pc = "copying"
    /\ \E d \in pending :
        /\ pending' = pending \ {d}
        /\ IF Exists(blobs, d)
           THEN /\ events' = Report(events, "skip", d)
                /\ UNCHANGED blobs
           ELSE /\ events' = Report(events, "upload", d)
                /\ blobs' = blobs @@ (d.digest :> TextBytes(""))
    /\ UNCHANGED <<catalogVars, parseVars, procs, dstKind, tags, pc, build, input, before, result, nOps, now,
                   prev, pushed, loaded, nTamper>>

\* one successor: skipped when the destination holds its digest (the
\* callback OnCopySkipped is set by pushDeck only), else announced to
\* PreCopy, fetched from the memory store and pushed
CopyNode ==
    /\ pc = "copying"
    /\ \E d \in pending :
        /\ pending' = pending \ {d}
        /\ IF Exists(blobs, d)
           THEN /\ events' = Report(events, "skip", d)
                /\ UNCHANGED blobs
           ELSE /\ events' = Report(events, "upload", d)
                /\ blobs' = blobs @@ (d.digest :> build.store.content[MemKey(d)])
    /\ UNCHANGED <<catalogVars, parseVars, procs, dstKind, tags, pc, build, input, before, result, nOps, now,
                   prev, pushed, loaded, nTamper>>

\* the lookup or the push of one successor fails (the push after PreCopy
\* has announced it): the copy ends with that error
CopyNodeFail ==
    /\ pc = "copying"
    /\ \E d \in pending :
        events' = IF Exists(blobs, d) THEN events ELSE Report(events, "upload", d)
    /\ pending' = {}
    /\ pc' = "idle"
    /\ result' = "copy failed"
    /\ UNCHANGED <<catalogVars, parseVars, procs, dstKind, blobs, tags, build, input, before, nOps, now,
                   prev, pushed, loaded, nTamper>>

\* a plausible slip: the manifest goes first, not waiting for its successors
CopyManifest_early ==
    /\ pc = "copying"
    /\ build.root.digest \notin DOMAIN blobs
    /\ blobs' = blobs @@ (build.root.digest :> build.store.content[MemKey(build.root)])
    /\ tags' = IF dstKind = "remote" THEN Bind(tags, input.tag, build.root)
                ELSE ByDigestRef(tags, build.root)
    /\ pushed' = IF dstKind = "remote" THEN Bind(pushed, input.tag, build.cards) ELSE pushed
    /\ UNCHANGED <<catalogVars, parseVars, procs, dstKind, pc, build, input, pending, events, before, result,
                   nOps, now, prev, loaded, nTamper>>

\* all successors done: the manifest is pushed; a registry takes it with
\* its tag in one request, a layout enters it in index.json under its digest
\* and is tagged after the push
CopyManifest ==
    /\ pc = "copying"
    /\ pending = {}
    /\ events' = Report(events, "upload", build.root)
    /\ blobs' = blobs @@ (build.root.digest :> build.store.content[MemKey(build.root)])
    /\ IF dstKind = "remote"
       THEN /\ tags' = Bind(tags, input.tag, build.root)
            /\ pushed' = Bind(pushed, input.tag, build.cards)
            /\ pc' = "idle"
            /\ result' = "ok"
       ELSE /\ tags' = ByDigestRef(tags, build.root)
            /\ pc' = "tagging"
            /\ UNCHANGED <<pushed, result>>
    /\ UNCHANGED <<catalogVars, parseVars, procs, dstKind, build, input, pending, before, nOps, now,
                   prev, loaded, nTamper>>

\* a plausible slip: the tag is bound although the push of the manifest failed
CopyManifestFail_tagged ==
    /\ pc = "copying"
    /\ pending = {}
    /\ tags' = Bind(tags, input.tag, build.root)
    /\ pc' = "idle"
    /\ result' = "copy failed"
    /\ UNCHANGED <<catalogVars, parseVars, procs, dstKind, blobs, build, input, pending, events, before, nOps, now,
                   prev, pushed, loaded, nTamper>>

\* the push of the manifest fails
CopyManifestFail ==
    /\ pc = "copying"
    /\ pending = {}
    /\ events' = Report(events, "upload", build.root)
    /\ pc' = "idle"
    /\ result' = "copy failed"
    /\ UNCHANGED <<catalogVars, parseVars, procs, dstKind, blobs, tags, build, input, pending, before, nOps, now,
                   prev, pushed, loaded, nTamper>>

\* oci.Store.Tag of the root, after its push
TagManifest ==
    /\ pc = "tagging"
    /\ tags' = Bind(tags, input.tag, build.root)
    /\ pushed' = Bind(pushed, input.tag, build.cards)
    /\ pc' = "idle"
    /\ result' = "ok"
    /\ UNCHANGED <<catalogVars, parseVars, procs, dstKind, blobs, build, input, pending, events, before, nOps, now,
                   prev, loaded, nTamper>>

\* oci.Store.Tag fails (index.json cannot be written)
TagManifestFail ==
    /\ pc = "tagging"
    /\ pc' = "idle"
    /\ result' = "copy failed"
    /\ UNCHANGED <<catalogVars, parseVars, procs, dstKind, blobs, tags, build, input, pending, events, before,
                   nOps, now, prev, pushed, loaded, nTamper>>

\* serveDeck's loadDeck, run against the destination between two runs
LoadDeck ==
    /\ pc = "idle"
    /\ \E tag \in Tags :
         loaded' = [tag |-> tag, deck |-> loadDeck(blobs, tags, tag)]
    /\ UNCHANGED <<catalogVars, parseVars, procs, dstKind, blobs, tags, pc, build, input, pending, events, before,
                   result, nOps, now, prev, pushed, nTamper>>

\* what a blob may be overwritten with
Garbage == TextBytes("tampered garbage data")

\* outside the program: after a run that stored its artifact, the bytes
\* stored under one digest are replaced by other bytes
Tamper ==
    /\ pc = "idle"
    /\ result = "ok"
    /\ nTamper < MaxTamper
    /\ nTamper' = nTamper + 1
    /\ \E d \in DOMAIN blobs :
         \E b \in {Garbage} \cup {blobs[e] : e \in DOMAIN blobs} :
            /\ b.kind \in {"text", blobs[d].kind}
            /\ b # blobs[d]
            /\ blobs' = [blobs EXCEPT ![d] = b]
    /\ loaded' = NoLoad
    /\ UNCHANGED <<catalogVars, parseVars, procs, dstKind, tags, pc, build, input, pending, events, before,
                   result, nOps, now, prev, pushed>>

Init ==
    /\ arg = <<>>
    /\ ret = NoRet
    /\ InitStore
    /\ InitRest

Next ==
    \/ pushDeck
    \/ saveDeckLocal
    \/ CopyNode
    \/ CopyNodeFail
    \/ CopyManifest
    \/ CopyManifestFail
    \/ TagManifest
    \/ TagManifestFail
    \/ LoadDeck

Spec == Init /\ [][Next]_vars

NextTamper == Next \/ Tamper

SpecTamper == Init /\ [][NextTamper]_vars

(* -------------------- the catalog, called on its own ------------------- *)

\* the characters arbitrary inputs are made of
Alphabet == {"2", "1", "0", "a", "k", "c", "h", "x", "A", "H", " "}

RankSeqs ==
    {<<"2">>, <<"3">>, <<"4">>, <<"5">>, <<"6">>, <<"7">>, <<"8">>, <<"9">>,
     <<"1", "0">>, <<"j">>, <<"q">>, <<"k">>, <<"a">>}

SuitChars == {"c", "d", "s", "h"}

\* the 52 codes, one per (rank key, suit character)
ValidCodes == {r \o <<s>> : r \in RankSeqs, s \in SuitChars}

CodeInputs ==
    UNION {[1..n -> Alphabet] : n \in 0..MaxCodeLen} \cup ValidCodes

InitCatalog ==
    /\ arg \in CodeInputs
    /\ ret = NoRet
    /\ InitStore
    /\ dstKind = "remote"
    /\ blobs = <<>>
    /\ InitRest

Resolve ==
    /\ ret = NoRet
    /\ ret' = shorthandToFilename(arg)
    /\ UNCHANGED arg
    /\ UNCHANGED storeVars
    /\ UNCHANGED <<parseVars, procs>>

NextCatalog == Resolve

SpecCatalog == InitCatalog /\ [][NextCatalog]_vars

(* ------------------- buildDeck, called again and again ----------------- *)

Build ==
    /\ nOps < MaxBuilds
    /\ \E deckPath \in DeckPaths, imagesDir \in ImagesDirs, tag \in Tags, t \in Times :
         \E order \in Orders(uniqueCards(deckPath)) :
            /\ build' = buildDeck(deckPath, imagesDir, tag, order, t)
            /\ input' = [deckPath |-> deckPath, imagesDir |-> imagesDir, tag |-> tag]
            /\ now' = t
    /\ prev' = [build |-> build, input |-> input]
    /\ nOps' = nOps + 1
    /\ UNCHANGED <<catalogVars, parseVars, procs, dstKind, blobs, tags, pc, pending, events, before,
                   result, pushed, loaded, nTamper>>

InitBuild ==
    /\ arg = <<>>
    /\ ret = NoRet
    /\ InitStore
    /\ dstKind = "remote"
    /\ blobs = <<>>
    /\ InitRest

NextBuild == Build

SpecBuild == InitBuild /\ [][NextBuild]_vars

(* ---------------------- parseTag, called on its own -------------------- *)

\* longest host name and tag of the references handed to parseTag
MaxNameLen == 2

\* names: the non-empty strings of letters up to that length
Names == UNION {[1..n -> {"h", "v"}] : n \in 1..MaxNameLen}

Hosts == Names \cup {<<"h", ".", "v">>}
Ports == {<<"5">>, <<"5", "0">>}
Paths == {<<"d">>, <<"n", "/", "d">>}
RefTags == Names \cup {latest}

\* a reference <host>[:<port>]/<path>[:<tag>]; an empty port or tag is left out
Reference(host, port, path, tag) ==
    host \o (IF port = <<>> THEN <<>> ELSE <<":">> \o port) \o <<"/">> \o path
         \o (IF tag = <<>> THEN <<>> ELSE <<":">> \o tag)

\* the references of the calls, and some strings that are none
RefInputs ==
    {Reference(h, p, q, t) : h \in Hosts, p \in Ports \cup {<<>>}, q \in Paths,
                             t \in RefTags \cup {<<>>}}
    \cup UNION {[1..n -> {"h", ":", "/"}] : n \in 0..MaxNameLen}

InitRef ==
    /\ arg = <<>>
    /\ ret = NoRet
    /\ InitStore
    /\ dstKind = "remote"
    /\ blobs = <<>>
    /\ target \in RefInputs
    /\ parsed = NoParsed
    /\ procs = <<>>

ParseTag ==
    /\ parsed = NoParsed
    /\ parsed' = parseTag(target)
    /\ UNCHANGED <<catalogVars, storeVars, target, procs>>

NextRef == ParseTag

SpecRef == InitRef /\ [][NextRef]_vars

(* ------------------- serveDeck, between the runs ----------------------- *)

\* the artifact an earlier run stored for a.json under the tag latest
EarlierLatest == buildDeck("a.json", "PNG-cards-1.3", "latest", <<c2c, cad>>, 0)

\* serveDeck up to the listening: openDeck gives the source and the tag,
\* loadDeck loads with them; t is the tag of a registry reference
serveDeck ==
    /\ pc = "idle"
    /\ \E t \in Tags : \E tag \in {openDeck(dstKind, t)} :
         loaded' = [tag |-> tag, deck |-> loadDeck(blobs, tags, tag)]
    /\ UNCHANGED <<catalogVars, parseVars, procs, dstKind, blobs, tags, pc, build, input, pending, events, before,
                   result, nOps, now, prev, pushed, nTamper>>

\* the destination is new and empty, or it is what an earlier run that
\* stored a.json left, as v1 or as latest
InitServe ==
    /\ arg = <<>>
    /\ ret = NoRet
    /\ InitRest
    /\ dstKind \in {"remote", "oci"}
    /\ \/ /\ blobs = <<>>
          /\ tags = <<>>
          /\ pushed = <<>>
       \/ \E e \in {Earlier, EarlierLatest} : \E t \in DOMAIN e.store.tags :
          /\ blobs = ByDigest(e.store.content)
          /\ tags = IF dstKind = "oci" THEN ByDigestRef(e.store.tags, e.root)
                    ELSE e.store.tags
          /\ pushed = (t :> e.cards)
    /\ pc = "idle"
    /\ build = NoBuild
    /\ input = NoInput
    /\ pending = {}
    /\ events = <<>>
    /\ before = [blobs |-> <<>>, tags |-> <<>>]
    /\ result = "(none)"
    /\ nOps = 0
    /\ now = 0
    /\ prev = [build |-> NoBuild, input |-> NoInput]
    /\ loaded = NoLoad
    /\ nTamper = 0

NextServe ==
    \/ pushDeck
    \/ saveDeckLocal
    \/ CopyNode
    \/ CopyNodeFail
    \/ CopyManifest
    \/ CopyManifestFail
    \/ TagManifest
    \/ TagManifestFail
    \/ serveDeck

SpecServe == InitServe /\ [][NextServe]_vars

(* ------------- two runs at one time, to one destination ---------------- *)

\* the runs going on at one time
NumProcs == 2

Procs == 1..NumProcs

\* the decks of these runs: both hold the card 2c
ParDecks == {"a.json", "b.json"}

\* a run that has not started
NoProc ==
    [pc |-> "idle", build |-> NoBuild, tag |-> "", pending |-> {}, staged |-> {},
     put |-> {}, index |-> <<>>, tagOrder |-> 0]

\* what the variables of the single runs keep while two runs go on
restVars == <<catalogVars, parseVars, dstKind, pc, build, input, pending, events, before,
              result, nOps, now, prev, pushed, loaded, nTamper>>

\* how many runs have written the tag of their artifact
TagWrites == Cardinality({q \in Procs : procs[q].tagOrder > 0})

\* pushDeck or saveDeckLocal up to the start of oras.Copy: the deck is built,
\* a layout's index.json is read by oci.New, the root is looked up in the
\* destination; a root the destination holds is only tagged
ParStart(p) ==
    /\ procs[p].pc = "idle"
    /\ \E deckPath \in ParDecks, tag \in Tags :
         \E order \in Orders(uniqueCards(deckPath)) :
            \E b \in {buildDeck(deckPath, "PNG-cards-1.3", tag, order, now)} :
                procs' = [procs EXCEPT ![p] =
                    [NoProc EXCEPT
                        !.build = b,
                        !.tag = tag,
                        !.index = IF dstKind = "oci" THEN tags ELSE <<>>,
                        !.pc = IF Exists(blobs, b.root) THEN "tagging" ELSE "copying",
                        !.pending = IF Exists(blobs, b.root) THEN {}
                                    ELSE Successors(b.manifest)]]
    /\ UNCHANGED <<restVars, blobs, tags>>

\* a plausible slip: the bytes are written in place, under the digest,
\* and the blob is there before they are all written
ParCheck_inplace(p) ==
    /\ procs[p].pc = "copying"
    /\ \E d \in procs[p].pending :
        IF Exists(blobs, d)
        THEN /\ procs' = [procs EXCEPT ![p].pending = @ \ {d}]
             /\ UNCHANGED blobs
        ELSE /\ procs' = [procs EXCEPT ![p].pending = @ \ {d}, ![p].staged = @ \cup {d}]
             /\ blobs' = blobs @@ (d.digest :> TextBytes(""))
    /\ UNCHANGED <<restVars, tags>>

\* one successor is looked up in the destination: one it holds is skipped,
\* one it lacks is fetched from the memory store and sent, to an upload
\* session of the registry or to an ingest file of the layout, where no
\* reader of the destination sees it
ParCheck(p) ==
    /\ procs[p].pc = "copying"
    /\ \E d \in procs[p].pending :
        IF Exists(blobs, d)
        THEN procs' = [procs EXCEPT ![p].pending = @ \ {d}]
        ELSE procs' = [procs EXCEPT ![p].pending = @ \ {d}, ![p].staged = @ \cup {d}]
    /\ UNCHANGED <<restVars, blobs, tags>>

\* the bytes sent are all there and verified: the registry commits the
\* upload, the layout renames the ingest file to the path of the digest; a
\* blob another run has put there meanwhile stays (it holds the same bytes)
ParCommit(p) ==
    /\ procs[p].pc = "copying"
    /\ \E d \in procs[p].staged :
        /\ procs' = [procs EXCEPT ![p].staged = @ \ {d}, ![p].put = @ \cup {d}]
        /\ blobs' = blobs @@ (d.digest :> procs[p].build.store.content[MemKey(d)])
    /\ UNCHANGED <<restVars, tags>>

\* a plausible slip: the manifest goes with its tag while successors are
\* still to be sent
ParManifest_early(p) ==
    /\ procs[p].pc = "copying"
    /\ \E r \in {procs[p].build.root} :
        /\ blobs' = blobs @@ (r.digest :> procs[p].build.store.content[MemKey(r)])
        /\ IF dstKind = "remote"
           THEN /\ tags' = Bind(tags, procs[p].tag, r)
                /\ procs' = [procs EXCEPT ![p].pc = "done", ![p].tagOrder = TagWrites + 1,
                                          ![p].pending = {}, ![p].staged = {}]
           ELSE /\ tags' = ByDigestRef(procs[p].index, r)
                /\ procs' = [procs EXCEPT ![p].pc = "tagging", ![p].index = tags',
                                          ![p].pending = {}, ![p].staged = {}]
    /\ UNCHANGED restVars

\* all successors done: the manifest is pushed; a registry takes it with
\* its tag in one request; a layout stores it and rewrites index.json from
\* the entries this run holds, the manifest entered under its digest
ParManifest(p) ==
    /\ procs[p].pc = "copying"
    /\ procs[p].pending = {}
    /\ procs[p].staged = {}
    /\ \E r \in {procs[p].build.root} :
        /\ blobs' = blobs @@ (r.digest :> procs[p].build.store.content[MemKey(r)])
        /\ IF dstKind = "remote"
           THEN /\ tags' = Bind(tags, procs[p].tag, r)
                /\ procs' = [procs EXCEPT ![p].pc = "done", ![p].tagOrder = TagWrites + 1]
           ELSE /\ tags' = ByDigestRef(procs[p].index, r)
                /\ procs' = [procs EXCEPT ![p].pc = "tagging", ![p].index = tags']
    /\ UNCHANGED restVars

\* the tag of the root is written: by a request to the registry, or by
\* rewriting index.json from the entries this run holds
ParTag(p) ==
    /\ procs[p].pc = "tagging"
    /\ \E r \in {procs[p].build.root} :
        IF dstKind = "remote"
        THEN /\ tags' = Bind(tags, procs[p].tag, r)
             /\ procs' = [procs EXCEPT ![p].pc = "done", ![p].tagOrder = TagWrites + 1]
        ELSE /\ tags' = Bind(ByDigestRef(procs[p].index, r), procs[p].tag, r)
             /\ procs' = [procs EXCEPT ![p].pc = "done", ![p].index = tags',
                                       ![p].tagOrder = TagWrites + 1]
    /\ UNCHANGED <<restVars, blobs>>

\* a lookup, a push or the tagging fails: oras.Copy returns the error and
\* what was being sent is dropped
ParFail(p) ==
    /\ procs[p].pc \in {"copying", "tagging"}
    /\ procs' = [procs EXCEPT ![p].pc = "failed", ![p].pending = {}, ![p].staged = {}]
    /\ UNCHANGED <<restVars, blobs, tags>>

\* the destination is new and empty
InitPar ==
    /\ arg = <<>>
    /\ ret = NoRet
    /\ InitStore
    /\ blobs = <<>>
    /\ target = <<>>
    /\ parsed = NoParsed
    /\ procs = [p \in Procs |-> NoProc]

NextPar ==
    \E p \in Procs :
        \/ ParStart(p)
        \/ ParCheck(p)
        \/ ParCommit(p)
        \/ ParManifest(p)
        \/ ParTag(p)
        \/ ParFail(p)

SpecPar == InitPar /\ [][NextPar]_vars

(* ------------------------------ the claims ----------------------------- *)

\* the bytes stored under the descriptor's digest are the bytes it names
Intact(bl, desc) == desc.digest \in DOMAIN bl /\ Digest(bl[desc.digest]) = desc.digest

\* C1 (under SpecTamper): when loadDeck returns a deck, the manifest the tag
\* resolves to, its config and every layer are stored with the bytes their
\* digests name, and every image of the deck has the digest of its layer;
\* so after any of these blobs is overwritten with other bytes loadDeck
\* returns an error.
TamperDetected ==
    loaded.deck.err = "" =>
        /\ loaded.tag \in DOMAIN tags
        /\ Intact(blobs, tags[loaded.tag])
        /\ LET m == blobs[tags[loaded.tag].digest].manifest IN
           /\ Intact(blobs, m.config)
           /\ \A l \in Range(m.layers) :
                /\ Intact(blobs, l)
                /\ Annotation(l.annotations, AnnotationTitle) \in DOMAIN loaded.deck.images
                /\ Digest(loaded.deck.images[Annotation(l.annotations, AnnotationTitle)])
                      = l.digest

\* C1 witness: a layer of a stored deck was overwritten and loadDeck failed on it
TamperDetectedWitness ==
    /\ nTamper > 0
    /\ result = "ok"
    /\ loaded.tag = input.tag
    /\ loaded.deck.err = "fetching layer"

\* the image layers the events of one type are about, and how many there are
EventDigests(type) == {events[i].desc.digest : i \in {j \in 1..Len(events) : events[j].type = type}}
EventCount(type) == Cardinality({j \in 1..Len(events) : events[j].type = type})

ValidDeck(path) ==
    /\ readDeck(path).err = ""
    /\ \A c \in Range(readDeck(path).cards) : shorthandToFilename(c).err = ""

\* C3: after a run of pushDeck or saveDeckLocal on a deck file of valid card
\* codes, the pictures at hand and the copy not having failed, loadDeck with
\* the tag of the run returns a deck: its cards are the list of the deck
\* file, in order, and its images hold the picture file name of every card.
RoundTripAll ==
    (pc = "idle" /\ nOps > 0 /\ ValidDeck(input.deckPath)
        /\ input.imagesDir = "PNG-cards-1.3" /\ result # "copy failed"
        /\ loaded # NoLoad /\ loaded.tag = input.tag) =>
        /\ loaded.deck.err = ""
        /\ loaded.deck.cards = readDeck(input.deckPath).cards
        /\ \A i \in 1..Len(loaded.deck.cards) :
              shorthandToFilename(loaded.deck.cards[i]).name \in DOMAIN loaded.deck.images

\* What holds of the round trip: loadDeck with a tag that a run bound (its
\* build and its copy without error) returns the cards of the deck file of
\* that run, in order, and the picture file name of every card.
RoundTrip ==
    (loaded # NoLoad /\ loaded.tag \in DOMAIN pushed) =>
        /\ loaded.deck.err = ""
        /\ loaded.deck.cards = pushed[loaded.tag]
        /\ \A i \in 1..Len(loaded.deck.cards) :
              shorthandToFilename(loaded.deck.cards[i]).name \in DOMAIN loaded.deck.images

\* the deck 2c, ad saved to a layout and loaded back
RoundTripWitness ==
    /\ dstKind = "oci"
    /\ loaded.deck.err = ""
    /\ loaded.deck.cards = <<c2c, cad>>
    /\ DOMAIN loaded.deck.images = {"2_of_clubs.png", "ace_of_diamonds.png"}

\* the descriptor buildDeck makes for a card code
LayerOf(code) ==
    [mediaType |-> imageMediaType,
     digest |-> Digest(PngBytes(shorthandToFilename(code).name)),
     size |-> Size(PngBytes(shorthandToFilename(code).name)),
     annotations |-> <<<<AnnotationCard, Str(code)>>,
                       <<AnnotationTitle, shorthandToFilename(code).name>>>>]

\* C4: the i-th layer of the manifest buildDeck produced is the descriptor
\* of the i-th card code of the deck file.
LayerOrder ==
    build.err = "" =>
        /\ Len(build.manifest.layers) = Len(build.cards)
        /\ \A i \in 1..Len(build.cards) : build.manifest.layers[i] = LayerOf(build.cards[i])

\* C5 (under SpecBuild): two successive calls of buildDeck on the same deck
\* file and images directory that both succeed give the same manifest and
\* the same manifest descriptor.
BuildDeterministic ==
    (build.err = "" /\ prev.build.err = ""
        /\ input.deckPath = prev.input.deckPath /\ input.imagesDir = prev.input.imagesDir) =>
        /\ build.manifest = prev.build.manifest
        /\ build.root = prev.build.root

\* C6: a push of bytes the store already holds returns their descriptor
\* without an error and writes nothing.
DedupIdempotent ==
    \A i \in 1..Len(build.pushes) :
        build.pushes[i].held =>
            /\ build.pushes[i].err = ""
            /\ build.pushes[i].desc.digest = build.pushes[i].digest
            /\ ~build.pushes[i].wrote

\* C7: after a copy that failed every tag is bound in the destination as
\* it was when the run began (unbound or to the same manifest), and every
\* blob it held then it still holds unchanged.
CopyFailureKeepsTags ==
    result = "copy failed" =>
        /\ \A t \in Tags :
              /\ t \in DOMAIN tags <=> t \in DOMAIN before.tags
              /\ t \in DOMAIN tags => tags[t] = before.tags[t]
        /\ \A d \in DOMAIN before.blobs : d \in DOMAIN blobs /\ blobs[d] = before.blobs[d]

\* C7 witness: a copy to a tag that was bound failed after adding blobs
CopyFailureKeepsTagsWitness ==
    /\ result = "copy failed"
    /\ input.tag \in DOMAIN before.tags
    /\ DOMAIN blobs # DOMAIN before.blobs

\* C8: in every state, also in the middle of a copy, every manifest the
\* destination holds has its config and all its layers there, and every
\* bound tag resolves to a manifest the destination holds.
NoDanglingTag ==
    /\ \A t \in DOMAIN tags :
          /\ tags[t].digest \in DOMAIN blobs
          /\ blobs[tags[t].digest].kind = "json-manifest"
    /\ \A d \in DOMAIN blobs :
          blobs[d].kind = "json-manifest" =>
              \A s \in Successors(blobs[d].manifest) : s.digest \in DOMAIN blobs

\* C8 witness: in the middle of a copy to a tag that is bound, some
\* successors uploaded and some not yet
NoDanglingTagWitness ==
    /\ pc = "copying"
    /\ pending # {}
    /\ input.tag \in DOMAIN tags
    /\ DOMAIN blobs # DOMAIN before.blobs

\* the names of the ranks and suits, as the catalog is to give them
RankName(r) ==
    CASE r = <<"j">> -> "jack" [] r = <<"q">> -> "queen" [] r = <<"k">> -> "king"
      [] r = <<"a">> -> "ace" [] OTHER -> Str(r)
SuitName(s) ==
    CASE s = "c" -> "clubs" [] s = "d" -> "diamonds" [] s = "s" -> "spades" [] s = "h" -> "hearts"

\* C9 (under SpecCatalog): for every rank key r and suit character s,
\* shorthandToFilename(r+s) succeeds with "<rank name>_of_<suit name>.png";
\* 2c gives 2_of_clubs.png, ad ace_of_diamonds.png, 10h 10_of_hearts.png.
CatalogMapping ==
    ret # NoRet =>
        /\ \A r \in RankSeqs, s \in SuitChars :
              arg = r \o <<s>> =>
                  ret = [name |-> RankName(r) \o "_of_" \o SuitName(s) \o ".png", err |-> ""]
        /\ arg = <<"2", "c">> => ret.name = "2_of_clubs.png"
        /\ arg = <<"a", "d">> => ret.name = "ace_of_diamonds.png"
        /\ arg = <<"1", "0", "h">> => ret.name = "10_of_hearts.png"

\* C9 witness: the call on 10h has returned 10_of_hearts.png
CatalogMappingWitness ==
    arg = <<"1", "0", "h">> /\ ret = [name |-> "10_of_hearts.png", err |-> ""]

\* a lower-cased, trimmed code that is none of the 52
InvalidCode(n) ==
    \/ Len(n) < 2
    \/ n[Len(n)] \notin SuitChars
    \/ SubSeq(n, 1, Len(n) - 1) \notin RankSeqs

\* C10 (under SpecCatalog): shorthandToFilename returns an error and an
\* empty name for every input that, lower-cased and trimmed, is shorter
\* than 2 characters or has an unknown suit character or rank; it succeeds
\* only for the 52 codes.
InvalidRejected ==
    ret # NoRet =>
        /\ InvalidCode(TrimSpace(ToLower(arg))) => (ret.err # "" /\ ret.name = "")
        /\ ret.err = "" => TrimSpace(ToLower(arg)) \in ValidCodes

\* C10 witness: the call on " xc" (unknown rank x) has returned an error
InvalidRejectedWitness ==
    arg = <<" ", "x", "c">> /\ ret # NoRet /\ ret.err = "unknown rank"

\* lower-casing and trimming, written out anew: the i-th capital letter
\* becomes the i-th small letter, and the blanks at both ends go
Capitals == <<"A", "B", "C", "D", "E", "F", "G", "H", "I", "J", "K", "L", "M",
              "N", "O", "P", "Q", "R", "S", "T", "U", "V", "W", "X", "Y", "Z">>
Smalls == <<"a", "b", "c", "d", "e", "f", "g", "h", "i", "j", "k", "l", "m",
            "n", "o", "p", "q", "r", "s", "t", "u", "v", "w", "x", "y", "z">>
Lowered(s) ==
    [i \in 1..Len(s) |->
        IF \E k \in 1..Len(Capitals) : Capitals[k] = s[i]
        THEN Smalls[CHOOSE k \in 1..Len(Capitals) : Capitals[k] = s[i]]
        ELSE s[i]]
Blank(ch) == ch \in {" ", "\t", "\n", "\r"}
Normal(s) ==
    LET inked == {i \in 1..Len(s) : ~Blank(s[i])}
        first == CHOOSE i \in inked : \A j \in inked : i <= j
        last  == CHOOSE i \in inked : \A j \in inked : j <= i
    IN  IF inked = {} THEN <<>> ELSE SubSeq(Lowered(s), first, last)

\* C11 (under SpecCatalog): shorthandToFilename gives for a string what it
\* gives for the string lower-cased and trimmed: the same filename, or both
\* fail; AD resolves as ad does.
CaseInsensitive ==
    /\ ret # NoRet =>
          /\ ret.name = shorthandToFilename(Normal(arg)).name
          /\ (ret.err = "") <=> (shorthandToFilename(Normal(arg)).err = "")
    /\ shorthandToFilename(<<"A", "D">>) = shorthandToFilename(<<"a", "d">>)

\* C11 witness: the call on " AH" has returned what ah gives, a filename
CaseInsensitiveWitness ==
    /\ arg = <<" ", "A", "H">>
    /\ ret = [name |-> "ace_of_hearts.png", err |-> ""]
    /\ Normal(arg) = <<"a", "h">>

\* the inverse naming convention: the (rank key, suit character) pairs whose
\* names, put around "_of_" and before ".png", make the filename
Decode(name) ==
    {p \in RankSeqs \X SuitChars :
        RankName(p[1]) \o "_of_" \o SuitName(p[2]) \o ".png" = name}

\* C12 (under SpecCatalog): the filename shorthandToFilename returns for a
\* valid (rank, suit) pair decodes to that pair and to no other, so two
\* different pairs never get the same filename.
CatalogRoundTrip ==
    (ret # NoRet /\ arg \in ValidCodes) =>
        Decode(ret.name) = {<<SubSeq(arg, 1, Len(arg) - 1), arg[Len(arg)]>>}

\* C12 witness: the call on 10h has returned a name that decodes to (10, h)
CatalogRoundTripWitness ==
    /\ arg = <<"1", "0", "h">>
    /\ ret.err = ""
    /\ Decode(ret.name) = {<<(<<"1", "0">>), "h">>}

\* every layer of the manifest that the last pushDeck published is an
\* image/png with the filename of one of the deck's cards as its title and
\* the code of that card under the annotation `key`, and the artifact type
\* is application/vnd.card-deck
LayersAnnotated(key) ==
    (dstKind = "remote" /\ pc = "idle" /\ result = "ok") =>
        LET m == blobs[tags[input.tag].digest].manifest IN
        /\ m.artifactType = "application/vnd.card-deck"
        /\ \A l \in Range(m.layers) :
              /\ l.mediaType = "image/png"
              /\ \E c \in Range(build.cards) :
                    /\ Annotation(l.annotations, "org.opencontainers.image.title")
                          = shorthandToFilename(c).name
                    /\ Annotation(l.annotations, key) = Str(c)

\* C13: every layer of the manifest pushDeck publishes is an image/png with
\* the card's filename as title and the card code under the annotation key
\* "vnd.card-deck.card"; the artifact type is application/vnd.card-deck.
LayerAnnotations == LayersAnnotated("vnd.card-deck.card")

\* the deck file cannot be read, or a card code in it is invalid, or the
\* picture of a card is missing
BadInput(in) ==
    \/ readDeck(in.deckPath).err # ""
    \/ \E c \in Range(readDeck(in.deckPath).cards) :
          \/ shorthandToFilename(c).err # ""
          \/ ReadImage(in.imagesDir, shorthandToFilename(c).name).err # ""

\* C14: a run of pushDeck or saveDeckLocal whose deck file cannot be read,
\* or holds an invalid card code, or lacks a card's picture ends with the
\* error of buildDeck, which returns no store; no copy starts, and the
\* destination has the blobs and the tags it had.
BuildFailureTotal ==
    (nOps > 0 /\ BadInput(input)) =>
        /\ pc = "idle"
        /\ result = "build failed"
        /\ build.err # ""
        /\ build.store = NewMemory
        /\ events = <<>>
        /\ blobs = before.blobs
        /\ tags = before.tags

\* C14 witness: the deck 2c, zz was run against a destination that holds an
\* artifact, the build failed on the code zz
BuildFailureTotalWitness ==
    /\ input.deckPath = "bad.json"
    /\ input.imagesDir = "PNG-cards-1.3"
    /\ result = "build failed"
    /\ build.err = "unknown suit"
    /\ blobs # <<>>

\* C15: a tag is bound to one manifest descriptor, and binding it again
\* replaces the binding: after a run that ended well the tag of the run
\* resolves to the manifest of that run, whatever it was bound to before;
\* after one save to a new layout index.json lists that manifest and no other.
TagBinding ==
    /\ \A t \in DOMAIN tags : tags[t].mediaType = manifestMediaType
    /\ (pc = "idle" /\ result = "ok") =>
          /\ input.tag \in DOMAIN tags
          /\ tags[input.tag] = build.root
    /\ (dstKind = "oci" /\ pc = "idle" /\ result = "ok"
            /\ before.blobs = <<>> /\ before.tags = <<>>) =>
          IndexManifests(tags) = {[ref |-> input.tag, desc |-> build.root]}

\* C15 witness: a second deck saved to a layout under the tag of the first;
\* the tag resolves to the second manifest, the first stays in the index
\* without a name
TagBindingWitness ==
    /\ dstKind = "oci" /\ pc = "idle" /\ result = "ok"
    /\ input.deckPath = "b.json"
    /\ input.tag \in DOMAIN before.tags
    /\ before.tags[input.tag] # build.root
    /\ tags[input.tag] = build.root
    /\ Cardinality(IndexManifests(tags)) = 2

\* C16: every layer descriptor of a manifest the destination holds names a
\* blob the destination holds, with the digest of that blob's bytes as its
\* digest and their length as its size; the same holds of the manifest and
\* the store a build returned.
DescriptorIntegrity ==
    /\ \A d \in DOMAIN blobs :
          blobs[d].kind = "json-manifest" =>
              \A l \in Range(blobs[d].manifest.layers) :
                  /\ l.digest \in DOMAIN blobs
                  /\ Digest(blobs[l.digest]) = l.digest
                  /\ Size(blobs[l.digest]) = l.size
    /\ build.err = "" =>
          \A l \in Range(build.manifest.layers) :
              /\ <<l.mediaType, l.digest, l.size>> \in DOMAIN build.store.content
              /\ Digest(build.store.content[<<l.mediaType, l.digest, l.size>>]) = l.digest
              /\ Size(build.store.content[<<l.mediaType, l.digest, l.size>>]) = l.size

\* C16 witness: a deck of two cards saved to a layout that did not hold its
\* manifest; the layout holds the manifest and both layer blobs
DescriptorIntegrityWitness ==
    /\ dstKind = "oci" /\ pc = "idle" /\ result = "ok"
    /\ build.root.digest \notin DOMAIN before.blobs
    /\ build.root.digest \in DOMAIN blobs
    /\ Len(blobs[build.root.digest].manifest.layers) = 2
    /\ \E l \in Range(build.manifest.layers) : l.digest \notin DOMAIN before.blobs

\* C17 (under SpecRef): for a reference <host>[:<port>]/<path>[:<tag>]
\* parseTag returns the tag when there is one and "latest" when there is
\* none, with a port and without.
TagParsed ==
    parsed # NoParsed =>
        \A h \in Hosts, p \in Ports \cup {<<>>}, q \in Paths, t \in RefTags \cup {<<>>} :
            target = Reference(h, p, q, t) => parsed = (IF t = <<>> THEN latest ELSE t)

\* C17 witness: the call on h:50/n/d has returned "latest"
TagParsedWitness ==
    /\ target = <<"h", ":", "5", "0", "/", "n", "/", "d">>
    /\ parsed = latest

\* the lines of the line-oriented deck files, as characters
FileLines ==
    "cards.txt" :> << <<"#", " ", "c", "o", "m", "m", "e", "n", "t">>, c2c, <<>>, cad,
                      <<"#", " ", "a", "n", "o", "t", "h", "e", "r", " ",
                        "c", "o", "m", "m", "e", "n", "t">>, ckh >>

IsCardLine(line) == line # <<>> /\ Head(line) # "#"

\* the trimmed lines that are neither blank nor comments, in file order
KeptLines(lines) == SelectSeq([i \in 1..Len(lines) |-> TrimSpace(lines[i])], IsCardLine)

\* C18 (under SpecBuild): readDeck on a line-oriented deck file returns, in
\* file order, the trimmed lines that are neither blank nor start with '#',
\* and readDeck on a path that cannot be opened returns an error.
DeckFileRead ==
    /\ \A p \in DOMAIN FileLines :
          input.deckPath = p =>
              readDeck(p) = [cards |-> KeptLines(FileLines[p]), err |-> ""]
    /\ input.deckPath = "/nonexistent/deck.txt" => readDeck(input.deckPath).err # ""

\* the part of C18 about a path that cannot be opened, on its own
MissingFileFails ==
    input.deckPath \notin DOMAIN Files /\ build # NoBuild => build.err = "reading deck"

\* the blobs of the artifact of a run: its manifest, config and layers
ArtifactBlobs(b) == {b.root} \cup Successors(b.manifest)

\* C19 (under SpecPar): whatever the interleaving of the runs, every blob a
\* reader finds in the destination holds all the bytes its digest names,
\* and when two runs have both put the same content there, the destination
\* holds those bytes once, under their digest.
ConcurrentPut ==
    /\ \A d \in DOMAIN blobs : Digest(blobs[d]) = d
    /\ \A p, q \in Procs :
          p # q =>
              \A d \in procs[p].put \cap procs[q].put :
                  /\ d.digest \in DOMAIN blobs
                  /\ blobs[d.digest] = procs[p].build.store.content[MemKey(d)]
                  /\ Cardinality({k \in DOMAIN blobs : blobs[k] = blobs[d.digest]}) = 1

\* C19 witness: the runs of a.json and b.json have both found the picture
\* of 2c missing and both put it
ConcurrentPutWitness ==
    /\ procs[1].build.cards # procs[2].build.cards
    /\ \E d \in procs[1].put \cap procs[2].put : d.mediaType = imageMediaType
    /\ procs[1].pc = "done"
    /\ procs[2].pc = "done"

\* C20 (under SpecPar): when two runs that copy different manifests to the
\* same tag of one destination have both ended well, the tag is bound to
\* the manifest of the run that wrote the tag last and the blobs of both
\* artifacts are there; and in every state a bound tag resolves to a
\* manifest that is stored with its config and all its layers.
LastWriterWins ==
    /\ \A t \in DOMAIN tags :
          /\ Intact(blobs, tags[t])
          /\ \A s \in Successors(blobs[tags[t].digest].manifest) : Intact(blobs, s)
    /\ \A p, q \in Procs :
          (/\ procs[p].pc = "done"
           /\ procs[q].pc = "done"
           /\ procs[p].tag = procs[q].tag
           /\ procs[p].build.root # procs[q].build.root
           /\ procs[p].tagOrder < procs[q].tagOrder) =>
              /\ procs[q].tag \in DOMAIN tags
              /\ tags[procs[q].tag] = procs[q].build.root
              /\ \A d \in ArtifactBlobs(procs[p].build) \cup ArtifactBlobs(procs[q].build) :
                    Intact(blobs, d)

\* C20 witness: two saves of different decks to the tag latest of one
\* layout have ended; the run that wrote the tag last had read index.json
\* before the other wrote it, and index.json lists its manifest only
LastWriterWinsWitness ==
    /\ dstKind = "oci"
    /\ procs[1].pc = "done"
    /\ procs[2].pc = "done"
    /\ procs[1].tag = "latest"
    /\ procs[2].tag = "latest"
    /\ procs[1].tagOrder = 1
    /\ procs[2].tagOrder = 2
    /\ procs[1].build.root.digest \notin DOMAIN tags
    /\ tags["latest"] = procs[2].build.root

\* the place of a layer descriptor in the layers of a manifest, 0 for none
LayerIndex(m, d) ==
    IF \E k \in 1..Len(m.layers) : m.layers[k] = d
    THEN CHOOSE k \in 1..Len(m.layers) : m.layers[k] = d
    ELSE 0

\* C21: during one copy the config is transferred before any layer, the
\* upload and skip events of the layers come in manifest layer order, and
\* the manifest is stored only when all its successors are done.
TransferOrder ==
    (build.err = "" /\ build.manifest # NoManifest) =>
        /\ \A i, j \in 1..Len(events) :
              (/\ i < j
               /\ LayerIndex(build.manifest, events[i].desc) > 0
               /\ LayerIndex(build.manifest, events[j].desc) > 0) =>
                  LayerIndex(build.manifest, events[i].desc)
                      < LayerIndex(build.manifest, events[j].desc)
        /\ pc = "copying" =>
              /\ (\E l \in Range(build.manifest.layers) : l \notin pending) =>
                     build.manifest.config \notin pending
              /\ build.root.digest \notin DOMAIN blobs

\* the part of C21 about the manifest, on its own: it is stored, and the
\* tag written, only when no successor is left to transfer
ManifestLast ==
    (pc = "copying" /\ pending # {}) =>
        /\ build.root.digest \notin DOMAIN blobs
        /\ tags = before.tags

\* one layer for every distinct card code of the deck file, and the deck
\* file itself, duplicates and all, as the config
OneLayerPerCode ==
    /\ Len(build.manifest.layers) = Cardinality(Range(readDeck(input.deckPath).cards))
    /\ Range(build.manifest.layers) = {LayerOf(c) : c \in Range(readDeck(input.deckPath).cards)}
    /\ MemKey(build.manifest.config) \in DOMAIN build.store.content
    /\ build.store.content[MemKey(build.manifest.config)] = Files[input.deckPath]
    /\ build.cards = readDeck(input.deckPath).cards

\* C22 (under SpecBuild): buildDeck on a deck file of valid card codes, the
\* pictures at hand, builds a manifest with exactly one layer per distinct
\* card-code string (two for "ad" and "AD", of one digest) and the whole
\* deck file as the config.
DuplicatePolicy ==
    (build # NoBuild /\ ValidDeck(input.deckPath) /\ input.imagesDir = "PNG-cards-1.3") =>
        /\ build.err = ""
        /\ OneLayerPerCode

\* what holds of C22: whenever buildDeck returns a store, the manifest has
\* one layer per distinct card-code string and the config is the deck file
DuplicatePolicyBuilt == build.err = "" => OneLayerPerCode

\* a deck with a repeated code has been built: one layer for two cards
DuplicatePolicyBuiltWitness ==
    /\ input.deckPath = "dup.json"
    /\ build.err = ""
    /\ Len(build.manifest.layers) = 1
    /\ build.cards = <<c2c, c2c>>

\* a layout is served after a save to it that ended well
ServedAfterSave == dstKind = "oci" /\ loaded # NoLoad /\ pc = "idle" /\ result = "ok"

\* C23 as stated (under SpecServe): openDeck on a directory returns the tag
\* "latest"; after a save under the tag T, serveDeck loads the saved deck
\* when T is "latest", and loadDeck fails at tag resolution when it is not.
LocalSourceTagAll ==
    /\ (dstKind = "oci" /\ loaded # NoLoad) => loaded.tag = "latest"
    /\ ServedAfterSave =>
          IF input.tag = "latest"
          THEN loaded.deck.err = "" /\ loaded.deck.cards = build.cards
          ELSE loaded.deck.err = "resolving tag"

\* C23, amended: as stated for a layout where nothing else is tagged
\* "latest"; where an earlier save is, a save under another tag leaves
\* loadDeck returning the deck of that earlier save.
LocalSourceTag ==
    /\ (dstKind = "oci" /\ loaded # NoLoad) => loaded.tag = "latest"
    /\ ServedAfterSave =>
          IF input.tag = "latest"
          THEN loaded.deck.err = "" /\ loaded.deck.cards = build.cards
          ELSE IF "latest" \in DOMAIN before.tags
          THEN loaded.deck.err = "" /\ loaded.deck.cards = pushed["latest"]
          ELSE loaded.deck.err = "resolving tag"

\* C23 witness: a deck saved to a new layout under v1 is served, and
\* loadDeck has failed at the resolution of "latest"
LocalSourceTagWitness ==
    /\ ServedAfterSave
    /\ input.tag = "v1"
    /\ before.tags = <<>>
    /\ "v1" \in DOMAIN tags
    /\ loaded.tag = "latest"
    /\ loaded.deck.err = "resolving tag"

====
